---- MODULE Spec2Model ----
(***************************************************************************)
(* Job control service (src/server/main.py) and block interval poller      *)
(* (src/ethproofs/run.py) of openvm-reth-benchmark.                        *)
(*                                                                         *)
(* Spec       : the HTTP job control service: registry JOBS, the spawned   *)
(*              proving processes, the asyncio event loop that runs the    *)
(*              handlers, and the environment (process exits, the wrapper  *)
(*              script appearing and disappearing).                        *)
(* QuerySpec  : the read requests (proof_state, logs) of that service on   *)
(*              a registry with no job or one job, with the request and    *)
(*              the files it reads drawn from bounded sets.                *)
(* PollerSpec : the polling loop of run.py.                                *)
(* StartupSpec: the start of both processes: the poller with its loop, the *)
(*              service with its startup handler.                          *)
(* EncodeSpec : json_to_base64 of run.py on two proof files drawn from a   *)
(*              bounded set of JSON texts.                                 *)
(***************************************************************************)
EXTENDS Integers, Sequences, FiniteSets, TLC

(***************************************************************************)
(* Bounds of the model and sample inputs.                                  *)
(***************************************************************************)
\* The number of processes the service spawns in one behaviour.
MaxSpawns == 2
\* proof_uuid values sent by clients.
Ids == {"abc-123", "blk-7"}
\* HTTP requests to /start_proof that can be in flight at the same time.
Reqs == {"r1", "r2"}
\* Exit codes of the proving process: success, failure, killed by a signal.
ExitCodes == {0, 1, -9}

\* Python's None / an optional value: <<>> is None, <<v>> is the value v.
None == <<>>
Some(v) == <<v>>

(***************************************************************************)
(* State of the job control service.                                       *)
(***************************************************************************)
VARIABLES
    JOBS,          \* the registry: a dict proof_uuid -> Job
    procs,         \* the processes spawned so far, indexed by pid
    reqs,          \* the /start_proof requests in flight: position and locals
    running,       \* the coroutine the event loop is executing, or None
    scriptExists,  \* whether prove_block.sh exists next to main.py
    job_dirs,      \* the job directories created under JOBS_DIR
    resp,          \* the response sent by the last step, or None
    query,         \* QuerySpec: the request and the files it will read
    server         \* the service process: its state and its startup outcome

svars == <<JOBS, procs, reqs, running, scriptExists, job_dirs, resp, query,
           server>>

(***************************************************************************)
(* State of the block interval poller (run.py, main and prove).           *)
(***************************************************************************)
VARIABLES
    pc,            \* the position of the poller in main() / prove()
    last_checked,  \* main: the checkpoint
    latest_block,  \* main: the head returned by get_latest_block()
    block,         \* prove: the block being proved
    events,        \* what the current loop iteration has done, in order
    attempts,      \* prove: the make-input attempts of the current cycle
    started,       \* the targets of the proving cycles begun, in order
    completed      \* the targets whose proving cycle ran to its end

pvars == <<pc, last_checked, latest_block, block, events, attempts, started,
           completed>>

(***************************************************************************)
(* State of the proof encoding (run.py, json_to_base64).                   *)
(***************************************************************************)
VARIABLES
    proof_files,   \* EncodeSpec: the texts of two proof.json files
    encoded        \* EncodeSpec: what json_to_base64 returns for them, or None

evars == <<proof_files, encoded>>

vars == <<svars, pvars, evars>>

\* Job.__init__: the fields of a registry entry.
Job(pid, job_dir, mode) ==
    [pid |-> pid,
     popen |-> pid,
     job_dir |-> job_dir,
     stdout_path |-> <<job_dir, "stdout.log">>,
     stderr_path |-> <<job_dir, "stderr.log">>,
     mode |-> mode]

\* subprocess.Popen.poll(): None while the process runs, else its exit code.
Poll(ps, pid) == IF ps[pid].exited THEN Some(ps[pid].returncode) ELSE None

\* The processes of job identifier u that have not exited.
Live(ps, u) == {p \in DOMAIN ps : ps[p].uuid = u /\ ~ps[p].exited}

\* start_proof, lines 92-93: `j and j.popen.poll() is None`.
AlreadyRunning_NoCheck(jobs, ps, u) == FALSE
AlreadyRunning_NoPoll(jobs, ps, u) == u \in DOMAIN jobs
AlreadyRunning(jobs, ps, u) ==
    u \in DOMAIN jobs /\ Poll(ps, jobs[u].popen) = None

\* run_proof, lines 67-69: the wrapper script is looked for before the spawn.
RunProofRaises_NoCheck(script) == FALSE
RunProofRaises(script) == ~script

\* What the two mkdir calls of start_proof do: the job directory is made or
\* found, or a call raises NotADirectoryError (a regular file in the path),
\* PermissionError, or OSError (a name the file system does not take).
MkdirOutcomes == {"made", "NotADirectoryError", "PermissionError", "OSError"}

\* What run_proof does with a script that is there: the two log files are
\* opened and subprocess.Popen starts the process, or open() raises
\* IsADirectoryError (a directory has the name of the log file), or Popen
\* raises FileNotFoundError (the interpreter of the script is missing),
\* PermissionError (no execute permission) or OSError (no executable format).
SpawnOutcomes ==
    {"spawned", "IsADirectoryError", "FileNotFoundError", "PermissionError",
     "OSError"}

\* run_proof, lines 73-75: subprocess.Popen starts one process for
\* proof_uuid, or it or an open() before it raises, and none is started.
Popen(ps, u, outcome) ==
    IF outcome = "spawned"
    THEN Append(ps, [uuid |-> u, exited |-> FALSE, returncode |-> 0])
    ELSE ps

\* start_proof, line 118: JOBS[proof_uuid] = Job(...).
StoreJob_Rebuild(jobs, u, job) == [x \in {u} |-> job]
StoreJob(jobs, u, job) ==
    [x \in DOMAIN jobs \cup {u} |-> IF x = u THEN job ELSE jobs[x]]

\* The positions of start_proof at which the coroutine hands control back to
\* the event loop before it goes on: the handler is `async def` and holds no
\* `await`, so there is none.
AwaitPoints_AwaitSpawn == {"store"}
AwaitPoints == {}

\* The event loop after a step of request r that goes on at position pos.
LoopAfter(r, pos) == IF pos \in AwaitPoints THEN None ELSE Some(r)

IdleReq == [pc |-> "idle", uuid |-> "", proc |-> 0]

InFlight == {r \in Reqs : reqs[r].pc # "idle"}

SInit ==
    /\ JOBS = [u \in {} |-> None]
    /\ procs = <<>>
    /\ reqs = [r \in Reqs |-> IdleReq]
    /\ running = None
    /\ scriptExists \in BOOLEAN
    /\ job_dirs = {}
    /\ resp = None
    /\ query = None
    /\ server = [state |-> "startup", failure |-> "none"]

\* The service once its startup handler has returned.
Serving == server.state = "serving"

\* The values of APP_PK_URI and AGG_PK_URI: unset, empty or set.
KeyUris == {None, Some(""), Some("s3://keys/pk")}

\* download_proving_keys_on_startup, line 24: "not uri".
UriMissing(uri) == uri = None \/ uri = Some("")

\* download_proving_keys_on_startup, the startup handler of the service.  A
\* missing URI raises out of the handler and the service does not start; a
\* key file that is missing is copied, and a copy that fails (copy_ok false)
\* is caught and printed, the service starting all the same.
ServerStartup_NoCatch(app_pk_uri, agg_pk_uri, app_pk_exists, agg_pk_exists, copy_ok) ==
    /\ server.state = "startup"
    /\ server' = IF UriMissing(app_pk_uri) \/ UriMissing(agg_pk_uri)
                 THEN [state |-> "terminated", failure |-> "ValueError"]
                 ELSE IF (~app_pk_exists \/ ~agg_pk_exists) /\ ~copy_ok
                 THEN [state |-> "terminated", failure |-> "download"]
                 ELSE [state |-> "serving", failure |-> "none"]
    /\ resp' = None
    /\ UNCHANGED <<JOBS, procs, reqs, running, scriptExists, job_dirs, query,
                   pvars, evars>>
ServerStartup(app_pk_uri, agg_pk_uri, app_pk_exists, agg_pk_exists, copy_ok) ==
    /\ server.state = "startup"
    /\ server' = IF UriMissing(app_pk_uri) \/ UriMissing(agg_pk_uri)
                 THEN [state |-> "terminated", failure |-> "ValueError"]
                 ELSE IF (~app_pk_exists \/ ~agg_pk_exists) /\ ~copy_ok
                 THEN [state |-> "serving", failure |-> "download"]
                 ELSE [state |-> "serving", failure |-> "none"]
    /\ resp' = None
    /\ UNCHANGED <<JOBS, procs, reqs, running, scriptExists, job_dirs, query,
                   pvars, evars>>

(***************************************************************************)
(* Files of a job directory, as the handlers read them.  The proving      *)
(* script writes them, so their content at the time of a request is an     *)
(* input of the request.  An absent file is None, a file is Some(text).    *)
(***************************************************************************)
\* A path that is there and is no text file: a directory, which open() does
\* not open (IsADirectoryError), and a file holding bytes that are not UTF-8,
\* which a strict read does not decode (UnicodeDecodeError); text is what a
\* read with errors="ignore" makes of the bytes, the bad ones dropped.
Directory == <<"directory", <<>>>>
Undecodable(text) == <<"undecodable", text>>

\* The path holds a file whose bytes decode as text.
IsText(path) == Len(path) = 1

\* open(path, "r") and a strict read(), read_text() or readlines(): the text,
\* or None where the call raises.
ReadStrict(path) == IF IsText(path) THEN Some(path[1]) ELSE None

\* path.open("r", errors="ignore") and the lines read from it: the text that
\* can be decoded, or None where open() raises.
ReadIgnore(path) == IF path = Directory THEN None ELSE Some(path[Len(path)])

\* A character outside ASCII, and the vertical tab, is written as the token of
\* its code point: "U+00A0" is the one character NO-BREAK SPACE.
AsciiDigits == {"0", "1", "2", "3", "4", "5", "6", "7", "8", "9"}

\* The decimal digits int() reads: the ASCII digits and the decimal digits of
\* other scripts, here ARABIC-INDIC DIGIT THREE.
DecimalDigits == AsciiDigits \cup {"U+0663"}

\* str.isdigit(): the decimal digits and the digit characters that are not
\* decimal, here SUPERSCRIPT TWO, which int() does not read.
Digits == DecimalDigits \cup {"U+00B2"}

\* The characters int() strips from both ends of its text: ASCII white space
\* with form feed and vertical tab, and the white space of Unicode, here
\* NEXT LINE, NO-BREAK SPACE, EM SPACE and IDEOGRAPHIC SPACE.
Whitespace ==
    {" ", "\n", "\t", "\r", "\f", "U+000B", "U+0085", "U+00A0", "U+2003", "U+3000"}

DigitVal(c) ==
    CASE c = "0" -> 0 [] c = "1" -> 1 [] c = "2" -> 2 [] c = "3" -> 3
      [] c = "4" -> 4 [] c = "5" -> 5 [] c = "6" -> 6 [] c = "7" -> 7
      [] c = "8" -> 8 [] c = "9" -> 9 [] c = "U+0663" -> 3

RECURSIVE LStrip(_)
LStrip(t) == IF t # <<>> /\ Head(t) \in Whitespace THEN LStrip(Tail(t)) ELSE t

RECURSIVE RStrip(_)
RStrip(t) ==
    IF t # <<>> /\ t[Len(t)] \in Whitespace
    THEN RStrip(SubSeq(t, 1, Len(t) - 1)) ELSE t

RECURSIVE Decimal(_)
Decimal(t) ==
    IF t = <<>> THEN 0 ELSE 10 * Decimal(SubSeq(t, 1, Len(t) - 1)) + DigitVal(t[Len(t)])

\* The digits of a numeral, its underscores dropped.
NumeralDigits(d) == SelectSeq(d, LAMBDA ch : ch \in DecimalDigits)

\* A numeral of int(): digits, with single underscores between digits.
IsNumeral(d) ==
    /\ d # <<>>
    /\ \A i \in 1..Len(d) : d[i] \in DecimalDigits \cup {"_"}
    /\ d[1] \in DecimalDigits
    /\ d[Len(d)] \in DecimalDigits
    /\ \A i \in 1..(Len(d) - 1) : ~(d[i] = "_" /\ d[i + 1] = "_")

\* int(text): the number, or None where Python raises ValueError.  The text
\* is stripped of whitespace and may carry one sign before its numeral.
PyInt(t) ==
    LET s == RStrip(LStrip(t))
        signed == s # <<>> /\ Head(s) \in {"+", "-"}
        d == IF signed THEN Tail(s) ELSE s
    IN  IF IsNumeral(d)
        THEN Some(IF signed /\ Head(s) = "-"
                  THEN -Decimal(NumeralDigits(d)) ELSE Decimal(NumeralDigits(d)))
        ELSE None

\* get_proof_state, lines 136-142.
StatusOf_Positive(exit_code) ==
    IF exit_code = None THEN "InProgress"
    ELSE IF exit_code[1] > 0 THEN "Failed" ELSE "Completed"
StatusOf(exit_code) ==
    IF exit_code = None THEN "InProgress"
    ELSE IF exit_code[1] = 0 THEN "Completed" ELSE "Failed"

\* get_proof_state, lines 143-147: the latency, None when the file is absent.
\* The result is [raised, value]; raised when the read or int() raises.
\* int(f.read()) and int(path.read_text()) of a path that is there: the
\* number, or None where the read or int() raises.
ReadInt(path) ==
    IF ReadStrict(path) = None THEN None ELSE PyInt(ReadStrict(path)[1])

ReadLatency_Zero(latency_file) ==
    IF latency_file = None THEN [raised |-> FALSE, value |-> Some(0)]
    ELSE [raised |-> ReadInt(latency_file) = None, value |-> ReadInt(latency_file)]
ReadLatency(latency_file) ==
    IF latency_file = None THEN [raised |-> FALSE, value |-> None]
    ELSE [raised |-> ReadInt(latency_file) = None, value |-> ReadInt(latency_file)]

\* The two substrings get_proof_state looks for in a line of metrics.json;
\* a line is the sequence of its tokens.
MetricKey == "\"metric\": \"execute_metered_insns\""
ValueKey == "\"value\""

InLine(key, line) == \E i \in 1..Len(line) : line[i] = key

\* lines 161-162: the characters of the line for which isdigit() holds,
\* joined, as a number, 0 without any; None where int() raises.
DigitsOf(v) ==
    LET digits == SelectSeq(v, LAMBDA ch : ch \in Digits) IN
    IF digits # <<>> THEN PyInt(digits) ELSE Some(0)

\* lines 157-163: the first line that names the metric decides; the value is
\* read from the line after it.  The result is the number, or None where
\* int() raises.
RECURSIVE ScanMetrics(_)
ScanMetrics(lines) ==
    IF lines = <<>> THEN Some(0)
    ELSE IF InLine(MetricKey, Head(lines))
         THEN LET v == IF Len(lines) >= 2 THEN lines[2] ELSE <<>> IN
              IF InLine(ValueKey, v) THEN DigitsOf(v) ELSE Some(0)
         ELSE ScanMetrics(Tail(lines))

\* lines 155-163 for a metrics.json that is there: the number, or None where
\* open() or int() raises.
ReadMetrics(metrics_file) ==
    IF ReadIgnore(metrics_file) = None THEN None
    ELSE ScanMetrics(ReadIgnore(metrics_file)[1])

\* get_proof_state, lines 149-163.
NumInstret_NoDefault(instret_file, metrics_file) ==
    IF instret_file # None
    THEN [raised |-> ReadInt(instret_file) = None, value |-> ReadInt(instret_file)]
    ELSE IF metrics_file # None
         THEN [raised |-> ReadMetrics(metrics_file) = None,
               value |-> ReadMetrics(metrics_file)]
         ELSE [raised |-> TRUE, value |-> None]
NumInstret(instret_file, metrics_file) ==
    IF instret_file # None
    THEN [raised |-> ReadInt(instret_file) = None, value |-> ReadInt(instret_file)]
    ELSE IF metrics_file # None
         THEN [raised |-> ReadMetrics(metrics_file) = None,
               value |-> ReadMetrics(metrics_file)]
         ELSE [raised |-> FALSE, value |-> Some(0)]

\* logs, lines 181-186: data[-lines:] of the lines of the file, [] without a
\* file.  The result is [raised, value]; raised when open() or readlines()
\* raises.
\* Python's slice data[-n:] starts at max(len - n, 0) for n > 0 and at 0 for n = 0.
tail(path, lines) ==
    IF path = None THEN [raised |-> FALSE, value |-> <<>>]
    ELSE IF ReadStrict(path) = None THEN [raised |-> TRUE, value |-> <<>>]
    ELSE LET data == ReadStrict(path)[1]
             start == IF lines > 0
                      THEN (IF Len(data) - lines > 0 THEN Len(data) - lines ELSE 0)
                      ELSE (IF -lines < Len(data) THEN -lines ELSE Len(data))
         IN [raised |-> FALSE, value |-> SubSeq(data, start + 1, Len(data))]

(***************************************************************************)
(* The handlers' responses.                                                *)
(***************************************************************************)
Response(handler, uuid, status_code, content) ==
    Some([handler |-> handler, uuid |-> uuid, status_code |-> status_code,
          content |-> content])

\* get_proof_state, lines 133-172, for the registry jobs, the processes ps and
\* the three files of the job directory as they are when the request runs.  An
\* exception that leaves the handler is answered 500 by the framework.
get_proof_state_NoLookup(jobs, ps, proof_uuid, latency_file, instret_file, metrics_file) ==
    Response("proof_state", proof_uuid, 200,
             [status |-> "InProgress", num_instructions |-> 0, e2e_latency_ms |-> None])
get_proof_state(jobs, ps, proof_uuid, latency_file, instret_file, metrics_file) ==
    IF proof_uuid \notin DOMAIN jobs
    THEN Response("proof_state", proof_uuid, 404, [error |-> "job not found"])
    ELSE LET j == jobs[proof_uuid]
             status == StatusOf(Poll(ps, j.popen))
             latency == ReadLatency(latency_file)
             instret == NumInstret(instret_file, metrics_file)
         IN  IF latency.raised \/ instret.raised
             THEN Response("proof_state", proof_uuid, 500,
                           [error |-> "Internal Server Error"])
             ELSE Response("proof_state", proof_uuid, 200,
                           [status |-> status,
                            num_instructions |-> instret.value[1],
                            e2e_latency_ms |-> latency.value])

\* logs, lines 177-194.  An exception of tail leaves the handler and is
\* answered 500 by the framework.
logs(jobs, proof_uuid, n, stdout_file, stderr_file) ==
    IF proof_uuid \notin DOMAIN jobs
    THEN Response("logs", proof_uuid, 404, [error |-> "job not found"])
    ELSE LET stdout == tail(stdout_file, n)
             stderr == tail(stderr_file, n)
         IN  IF stdout.raised \/ stderr.raised
             THEN Response("logs", proof_uuid, 500,
                           [error |-> "Internal Server Error"])
             ELSE Response("logs", proof_uuid, 200,
                           [stdout |-> stdout.value, stderr |-> stderr.value])

(***************************************************************************)
(* Steps of the job control service.                                       *)
(***************************************************************************)
\* A POST /start_proof arrives and its coroutine is scheduled.
StartProofArrive(r, u) ==
    /\ Serving
    /\ reqs[r].pc = "idle"
    /\ Len(procs) + Cardinality(InFlight) < MaxSpawns
    /\ reqs' = [reqs EXCEPT ![r] = [pc |-> "check", uuid |-> u, proc |-> 0]]
    /\ resp' = None
    /\ UNCHANGED <<JOBS, procs, running, scriptExists, job_dirs, query, server,
                   pvars, evars>>

\* start_proof, lines 89-103: the lookup and the answer for a running job.
StartProofCheck(r) ==
    /\ reqs[r].pc = "check"
    /\ running = None
    /\ LET u == reqs[r].uuid IN
       IF AlreadyRunning(JOBS, procs, u)
       THEN /\ resp' = Response("start_proof", u, 200,
                         [message |-> "job already running",
                          pid |-> JOBS[u].pid,
                          stdout_path |-> JOBS[u].stdout_path,
                          stderr_path |-> JOBS[u].stderr_path])
            /\ reqs' = [reqs EXCEPT ![r] = IdleReq]
            /\ running' = None
       ELSE /\ resp' = None
            /\ reqs' = [reqs EXCEPT ![r].pc = "run_proof"]
            /\ running' = LoopAfter(r, "run_proof")
    /\ UNCHANGED <<JOBS, procs, scriptExists, job_dirs, query, server,
                   pvars, evars>>

\* The event loop lets request r go on at position pos.
MayGoOn(r, pos) ==
    /\ reqs[r].pc = pos
    /\ \/ running = Some(r)
       \/ running = None /\ pos \in AwaitPoints

\* start_proof, lines 105-116: the job directory, then run_proof.  An
\* exception of mkdir leaves the handler before run_proof is called and is
\* answered 500 by the framework, no directory made.  A FileNotFoundError of
\* run_proof, raised by its own test or by Popen, is answered 500 with its
\* text; any other exception of run_proof leaves the handler and is answered
\* 500 by the framework.
StartProofRun(r, mkdir, spawn) ==
    /\ MayGoOn(r, "run_proof")
    /\ LET u == reqs[r].uuid IN
       /\ job_dirs' = IF mkdir = "made" THEN job_dirs \cup {u} ELSE job_dirs
       /\ IF mkdir # "made"
          THEN /\ resp' = Response("start_proof", u, 500,
                            [error |-> "Internal Server Error"])
               /\ reqs' = [reqs EXCEPT ![r] = IdleReq]
               /\ running' = None
               /\ procs' = procs
          ELSE IF RunProofRaises(scriptExists)
          THEN /\ resp' = Response("start_proof", u, 500,
                            [detail |-> "Wrapper script not found"])
               /\ reqs' = [reqs EXCEPT ![r] = IdleReq]
               /\ running' = None
               /\ procs' = procs
          ELSE IF spawn # "spawned"
          THEN /\ resp' = IF spawn = "FileNotFoundError"
                          THEN Response("start_proof", u, 500,
                                 [detail |-> "[Errno 2] No such file or directory"])
                          ELSE Response("start_proof", u, 500,
                                 [error |-> "Internal Server Error"])
               /\ reqs' = [reqs EXCEPT ![r] = IdleReq]
               /\ running' = None
               /\ procs' = Popen(procs, u, spawn)
          ELSE /\ resp' = None
               /\ procs' = Popen(procs, u, spawn)
               /\ reqs' = [reqs EXCEPT ![r] = [pc |-> "store", uuid |-> u,
                                               proc |-> Len(procs) + 1]]
               /\ running' = LoopAfter(r, "store")
    /\ UNCHANGED <<JOBS, scriptExists, query, server,
                   pvars, evars>>

\* start_proof, lines 118-128: the registry entry and the answer.
StartProofStore(r) ==
    /\ MayGoOn(r, "store")
    /\ LET u == reqs[r].uuid
           proc == reqs[r].proc
       IN /\ JOBS' = StoreJob(JOBS, u, Job(proc, u, "prove-stark"))
          /\ resp' = Response("start_proof", u, 202,
                       [message |-> "job started", pid |-> proc, job_dir |-> u])
    /\ reqs' = [reqs EXCEPT ![r] = IdleReq]
    /\ running' = None
    /\ UNCHANGED <<procs, scriptExists, job_dirs, query, server,
                   pvars, evars>>

\* health, lines 82-84.
Health ==
    /\ Serving
    /\ running = None
    /\ resp' = Response("healthz", "", 200, [status |-> "healthy"])
    /\ UNCHANGED <<JOBS, procs, reqs, running, scriptExists, job_dirs, query, server,
                   pvars, evars>>

\* The proving process p exits with code c.
ProcExit(p, c) ==
    /\ p \in DOMAIN procs
    /\ ~procs[p].exited
    /\ procs' = [procs EXCEPT ![p] = [@ EXCEPT !.exited = TRUE, !.returncode = c]]
    /\ resp' = None
    /\ UNCHANGED <<JOBS, reqs, running, scriptExists, job_dirs, query, server,
                   pvars, evars>>

\* prove_block.sh is installed next to main.py, or removed.
ScriptChange ==
    /\ scriptExists' = ~scriptExists
    /\ resp' = None
    /\ UNCHANGED <<JOBS, procs, reqs, running, job_dirs, query, server,
                   pvars, evars>>

\* get_proof_state and logs handle a request; the files are those the request
\* finds in the job directory.
GetProofState(u, latency_file, instret_file, metrics_file) ==
    /\ Serving
    /\ running = None
    /\ resp' = get_proof_state(JOBS, procs, u, latency_file, instret_file, metrics_file)
    /\ UNCHANGED <<JOBS, procs, reqs, running, scriptExists, job_dirs, query, server,
                   pvars, evars>>

Logs(u, n, stdout_file, stderr_file) ==
    /\ Serving
    /\ running = None
    /\ resp' = logs(JOBS, u, n, stdout_file, stderr_file)
    /\ UNCHANGED <<JOBS, procs, reqs, running, scriptExists, job_dirs, query, server,
                   pvars, evars>>

(***************************************************************************)
(* The block interval poller.                                              *)
(***************************************************************************)
\* run.py line 130, the first checkpoint.
InitialCheckpoint == 23946500
\* run.py lines 139 and 145, the proving interval.
INTERVAL == 100
\* run.py line 147, the seconds assumed per block.
BlockTime == 12
\* run.py line 97, the seconds between two make-input attempts.
Backoff == 5
\* run.py line 152, the seconds slept after an exception.
ErrorSleep == 10
\* run.py line 13.
MACHINE_ID == 1
\* ethproofs_api.py line 22.
SUCCESS_STATUS_CODE == 200

\* The failing make-input attempts followed in one proving cycle; the loop
\* of the code has no bound.
MaxAttempts == 3
\* Heads answered by the RPC node: behind the first checkpoint, on it, inside
\* its interval, and in the two intervals after it.
Heads == {InitialCheckpoint + o : o \in {-88, 0, 12, 50, 100, 150, 212}}
\* Status codes answered by the attestation API.
ApiStatusCodes == {200, 500}
\* Cluster lists answered by the attestation API.
ClusterLists == {<<>>, <<[id |-> 1]>>, <<[id |-> 2]>>, <<[id |-> 2], [id |-> 1]>>}

\* main, line 139: latest_block // 100 * 100.
NextTarget_RoundUp(latest) == ((latest + INTERVAL - 1) \div INTERVAL) * INTERVAL
NextTarget(latest) == (latest \div INTERVAL) * INTERVAL

\* main, line 136: the head is not past the checkpoint.
HeadBehind_Never(checkpoint, latest) == FALSE
HeadBehind(checkpoint, latest) == checkpoint >= latest

\* main, line 140.
ShouldProve_Always(next_target, checkpoint) == TRUE
ShouldProve(next_target, checkpoint) == next_target # checkpoint

\* main, line 141: the checkpoint when a cycle fires, set before prove() runs.
CheckpointOnFire_Keep(next_target, checkpoint) == checkpoint
CheckpointOnFire(next_target, checkpoint) == next_target

\* main, lines 145-147.
EstWait(latest) == (INTERVAL - (latest % INTERVAL)) * BlockTime

EInit ==
    /\ proof_files = <<>>
    /\ encoded = None

PInit ==
    /\ pc = "import"
    /\ last_checked = InitialCheckpoint
    /\ latest_block = 0
    /\ block = 0
    /\ events = <<>>
    /\ attempts = 0
    /\ started = <<>>
    /\ completed = {}

Ev(name, arg) == [ev |-> name, arg |-> arg]

\* run.py lines 22-23 and ethproofs_api.py lines 18-20: the required
\* environment variables are read when the modules are loaded.
LoadConfig(complete) ==
    /\ pc = "import"
    /\ pc' = IF complete THEN "clusters" ELSE "terminated"
    /\ events' = IF complete THEN events ELSE <<Ev("raise", "read_env_var_or_error")>>
    /\ UNCHANGED <<last_checked, latest_block, block, attempts, started,
                   completed, svars, evars>>

\* main, lines 123-128: the cluster lookup, outside the loop's try.
\* get_clusters raises on a request error, on an error status and on an
\* answer that is not a list (raised); otherwise it returns the list data.
GetClusters(raised, data) ==
    /\ pc = "clusters"
    /\ IF raised
       THEN /\ pc' = "terminated"
            /\ events' = <<Ev("raise", "get_clusters")>>
       ELSE IF ~(\E i \in 1..Len(data) : data[i].id = MACHINE_ID)
       THEN /\ pc' = "terminated"
            /\ events' = <<Ev("raise", "MACHINE_ID not in machine_ids")>>
       ELSE /\ pc' = "poll"
            /\ events' = events
    /\ UNCHANGED <<last_checked, latest_block, block, attempts, started,
                   completed, svars, evars>>

\* main, line 133: get_latest_block() returns a head or raises.
GetLatestBlock(raised, head) ==
    /\ pc = "poll"
    /\ IF raised
       THEN /\ pc' = "except"
            /\ events' = <<Ev("raise", "get_latest_block")>>
            /\ UNCHANGED latest_block
       ELSE /\ pc' = "check"
            /\ events' = <<Ev("head", head)>>
            /\ latest_block' = head
    /\ UNCHANGED <<last_checked, block, attempts, started, completed, svars, evars>>

\* main, lines 136-149: the decision of one iteration.
Check ==
    /\ pc = "check"
    /\ IF HeadBehind(last_checked, latest_block)
       THEN /\ pc' = "except"
            /\ events' = Append(events, Ev("raise", "last_checked >= latest_block"))
            /\ UNCHANGED <<last_checked, block, attempts, started>>
       ELSE LET next_target == NextTarget(latest_block) IN
            IF ShouldProve(next_target, last_checked)
            THEN /\ last_checked' = CheckpointOnFire(next_target, last_checked)
                 /\ block' = next_target
                 /\ attempts' = 0
                 /\ started' = Append(started, next_target)
                 /\ events' = Append(events, Ev("prove", next_target))
                 /\ pc' = "queued"
            ELSE /\ pc' = "idle_wait"
                 /\ events' = events
                 /\ UNCHANGED <<last_checked, block, attempts, started>>
    /\ UNCHANGED <<latest_block, completed, svars, evars>>

\* main, lines 145-149: the idle wait.
IdleWait ==
    /\ pc = "idle_wait"
    /\ events' = Append(events, Ev("sleep", EstWait(latest_block)))
    /\ pc' = "poll"
    /\ UNCHANGED <<last_checked, latest_block, block, attempts, started, completed,
                   svars, evars>>

\* main, lines 150-152: the handler of the loop's try.
Except_Exit ==
    /\ pc = "except"
    /\ events' = events
    /\ pc' = "terminated"
    /\ UNCHANGED <<last_checked, latest_block, block, attempts, started, completed,
                   svars, evars>>
Except ==
    /\ pc = "except"
    /\ events' = Append(events, Ev("sleep", ErrorSleep))
    /\ pc' = "poll"
    /\ UNCHANGED <<last_checked, latest_block, block, attempts, started, completed,
                   svars, evars>>

\* An attestation API report: the request raises, or is answered status_code;
\* submit_queued, submit_proving and submit_proof print and return either way.
Report(name, raised, status_code) ==
    IF raised THEN Ev("raise", name)
    ELSE Ev(name, IF status_code = SUCCESS_STATUS_CODE THEN "submitted" ELSE "failed")

\* prove, lines 89-90: api.submit_queued.
SubmitQueued_SkipInput(raised, status_code) ==
    /\ pc = "queued"
    /\ events' = Append(events, Report("queued", raised, status_code))
    /\ pc' = IF raised THEN "except" ELSE "proving"
    /\ UNCHANGED <<last_checked, latest_block, block, attempts, started, completed,
                   svars, evars>>
SubmitQueued(raised, status_code) ==
    /\ pc = "queued"
    /\ events' = Append(events, Report("queued", raised, status_code))
    /\ pc' = IF raised THEN "except" ELSE "make_input"
    /\ UNCHANGED <<last_checked, latest_block, block, attempts, started, completed,
                   svars, evars>>

\* prove, lines 93-96 and 98-99: one make-input attempt, up to the return of
\* wait().  Popen raises when the script cannot be started (raised), which
\* ends the cycle in the handler of the loop; a non-zero exit prints and goes
\* on to the sleep of line 97; a zero exit leaves the loop.  The model
\* follows a cycle through at most MaxAttempts attempts that fail.
MakeInput_GiveUp(raised, status) ==
    /\ pc = "make_input"
    /\ attempts' = attempts + 1
    /\ events' = Append(events, Ev("make_input", status))
    /\ pc' = "proving"
    /\ UNCHANGED <<last_checked, latest_block, block, started, completed, svars, evars>>
MakeInput(raised, status) ==
    /\ pc = "make_input"
    /\ IF raised
       THEN /\ events' = Append(events, Ev("raise", "make_input"))
            /\ pc' = "except"
            /\ attempts' = attempts
       ELSE IF status # 0
       THEN /\ attempts < MaxAttempts
            /\ attempts' = attempts + 1
            /\ events' = Append(events, Ev("make_input", status))
            /\ pc' = "backoff"
       ELSE /\ attempts' = attempts
            /\ events' = Append(events, Ev("make_input", status))
            /\ pc' = "proving"
    /\ UNCHANGED <<last_checked, latest_block, block, started, completed, svars, evars>>

\* prove, line 97: the sleep between a failed make-input attempt and the next.
RetrySleep ==
    /\ pc = "backoff"
    /\ events' = Append(events, Ev("sleep", Backoff))
    /\ pc' = "make_input"
    /\ UNCHANGED <<last_checked, latest_block, block, attempts, started, completed,
                   svars, evars>>

\* prove, lines 101-102: api.submit_proving.
SubmitProving_RaiseForStatus(raised, status_code) ==
    /\ pc = "proving"
    /\ events' = Append(events, Report("proving",
                                       raised \/ status_code # SUCCESS_STATUS_CODE,
                                       status_code))
    /\ pc' = IF raised \/ status_code # SUCCESS_STATUS_CODE THEN "except"
             ELSE "run_prove"
    /\ UNCHANGED <<last_checked, latest_block, block, attempts, started, completed,
                   svars, evars>>
SubmitProving(raised, status_code) ==
    /\ pc = "proving"
    /\ events' = Append(events, Report("proving", raised, status_code))
    /\ pc' = IF raised THEN "except" ELSE "run_prove"
    /\ UNCHANGED <<last_checked, latest_block, block, attempts, started, completed,
                   svars, evars>>

\* prove, lines 105-107: the proof run; the RuntimeError of line 107 is built
\* and dropped.
RunProve_Raise(raised, status) ==
    /\ pc = "run_prove"
    /\ events' = Append(events, IF raised \/ status # 0 THEN Ev("raise", "run_prove")
                                ELSE Ev("run_prove", status))
    /\ pc' = IF raised \/ status # 0 THEN "except" ELSE "read_artifacts"
    /\ UNCHANGED <<last_checked, latest_block, block, attempts, started, completed,
                   svars, evars>>
RunProve(raised, status) ==
    /\ pc = "run_prove"
    /\ events' = Append(events, IF raised THEN Ev("raise", "run_prove")
                                ELSE Ev("run_prove", status))
    /\ pc' = IF raised THEN "except" ELSE "read_artifacts"
    /\ UNCHANGED <<last_checked, latest_block, block, attempts, started, completed,
                   svars, evars>>

\* submit_proved, lines 69-80: num_instret, latency_ms.txt and proof.json are
\* read; a file that is missing or malformed raises.
ReadArtifacts(readable) ==
    /\ pc = "read_artifacts"
    /\ events' = Append(events, IF readable THEN Ev("read_artifacts", block)
                                ELSE Ev("raise", "read_artifacts"))
    /\ pc' = IF readable THEN "proved" ELSE "except"
    /\ UNCHANGED <<last_checked, latest_block, block, attempts, started, completed,
                   svars, evars>>

\* submit_proved, lines 82-83, and prove, line 119.
SubmitProof(raised, status_code) ==
    /\ pc = "proved"
    /\ events' = Append(events, Report("proved", raised, status_code))
    /\ pc' = IF raised THEN "except" ELSE "poll"
    /\ completed' = IF raised THEN completed ELSE completed \cup {block}
    /\ UNCHANGED <<last_checked, latest_block, block, attempts, started, svars, evars>>

(***************************************************************************)
(* The proof encoding (run.py, json_to_base64).  A text is a sequence of   *)
(* one-character strings; a parsed object is the sequence of its           *)
(* <<key, value>> members in the order of the dict.                        *)
(***************************************************************************)
\* The whitespace json.load skips between the tokens of a text.
JsonWhitespace == {" ", "\n", "\t", "\r"}

\* dict.__setitem__: a key that is there keeps its place and takes the new
\* value, a new key goes to the end.
DictSet(d, k, v) ==
    IF \E i \in 1..Len(d) : d[i][1] = k
    THEN [i \in 1..Len(d) |-> IF d[i][1] = k THEN <<k, v>> ELSE d[i]]
    ELSE Append(d, <<k, v>>)

\* The members "k":v of an object text after its opening brace, each followed
\* by a comma or by the closing brace, read from left to right.
RECURSIVE LoadMembers(_, _)
LoadMembers(t, d) ==
    IF Len(t) < 6 THEN d
    ELSE LoadMembers(SubSeq(t, 7, Len(t)), DictSet(d, t[2], DigitVal(t[5])))

\* json_to_base64, line 40: json.load of an object with one-letter keys and
\* one-digit values.
json_load(text) ==
    LET t == SelectSeq(text, LAMBDA ch : ch \notin JsonWhitespace) IN
    LoadMembers(SubSeq(t, 2, Len(t)), <<>>)

\* The numeral of a one-digit integer.
Numeral(v) == CHOOSE ch \in AsciiDigits : DigitVal(ch) = v

RECURSIVE DumpMembers(_)
DumpMembers(d) ==
    IF d = <<>> THEN <<>>
    ELSE LET m == <<"\"", d[1][1], "\"", ":", Numeral(d[1][2])>> IN
         IF Len(d) = 1 THEN m ELSE m \o <<",">> \o DumpMembers(Tail(d))

\* json_to_base64, line 43: json.dumps(data, separators=(",", ":"),
\* ensure_ascii=False): the members in the order of the dict, no whitespace.
json_dumps(d) == <<"{">> \o DumpMembers(d) \o <<"}">>

\* line 43, .encode("utf-8"): the byte of a character of a dumped text.
Ord(ch) ==
    CASE ch = "{" -> 123 [] ch = "}" -> 125 [] ch = "\"" -> 34 [] ch = ":" -> 58
      [] ch = "," -> 44 [] ch = "a" -> 97 [] ch = "b" -> 98
      [] ch \in AsciiDigits -> 48 + DigitVal(ch)

B64Alphabet ==
    <<"A", "B", "C", "D", "E", "F", "G", "H", "I", "J", "K", "L", "M", "N", "O",
      "P", "Q", "R", "S", "T", "U", "V", "W", "X", "Y", "Z", "a", "b", "c", "d",
      "e", "f", "g", "h", "i", "j", "k", "l", "m", "n", "o", "p", "q", "r", "s",
      "t", "u", "v", "w", "x", "y", "z", "0", "1", "2", "3", "4", "5", "6", "7",
      "8", "9", "+", "/">>

\* json_to_base64, line 46: base64.b64encode, three bytes to four characters,
\* the last group padded with "=".
RECURSIVE b64encode(_)
b64encode(bytes) ==
    IF bytes = <<>> THEN <<>>
    ELSE LET n == Len(bytes)
             b2 == IF n >= 2 THEN bytes[2] ELSE 0
             b3 == IF n >= 3 THEN bytes[3] ELSE 0
             v == bytes[1] * 65536 + b2 * 256 + b3
             sextet(k) == B64Alphabet[((v \div (64 ^ k)) % 64) + 1]
         IN  <<sextet(3), sextet(2),
               IF n >= 2 THEN sextet(1) ELSE "=",
               IF n >= 3 THEN sextet(0) ELSE "=">>
             \o (IF n > 3 THEN b64encode(SubSeq(bytes, 4, n)) ELSE <<>>)

\* json_to_base64, lines 37-48.
json_to_base64(text) ==
    LET json == json_dumps(json_load(text)) IN
    b64encode([i \in 1..Len(json) |-> Ord(json[i])])

\* submit_proved, lines 79-80, on each of the two proof files.
EncodeProofs ==
    /\ proof_files # <<>>
    /\ encoded = None
    /\ encoded' = Some(<<json_to_base64(proof_files[1]),
                         json_to_base64(proof_files[2])>>)
    /\ UNCHANGED <<proof_files, svars, pvars>>

\* The proof files of EncodeSpec: objects of at most MaxMembers members, with
\* repeated keys and with or without whitespace after the separators.
MaxMembers == 2
JsonKeys == {"a", "b"}
JsonValues == {1, 2}
MemberLists == UNION {[1..n -> JsonKeys \X JsonValues] : n \in 0..MaxMembers}

RECURSIVE MembersText(_, _)
MembersText(members, spaced) ==
    IF members = <<>> THEN <<>>
    ELSE LET gap == IF spaced THEN <<" ">> ELSE <<>>
             m == <<"\"", members[1][1], "\"", ":">> \o gap
                    \o <<Numeral(members[1][2])>>
         IN  IF Len(members) = 1 THEN m
             ELSE m \o <<",">> \o gap \o MembersText(Tail(members), spaced)

ObjectText(members, spaced) == <<"{">> \o MembersText(members, spaced) \o <<"}">>

ProofFiles == {ObjectText(members, spaced) : members \in MemberLists, spaced \in BOOLEAN}

(***************************************************************************)
(* Sample inputs of the read requests of Spec, and the bounded inputs of   *)
(* QuerySpec.                                                              *)
(***************************************************************************)
\* The lines of a log file, and the line counts asked for, in QuerySpec.
MaxLines == 3
MaxN == 3

\* Log files: absent, the lines 1..k, a directory, or a file with a line that
\* is not UTF-8.
LogFiles ==
    {None, Directory, Undecodable(<<1>>)}
    \cup {Some([i \in 1..k |-> i]) : k \in 0..MaxLines}

\* latency_ms.txt and num_instret: absent, empty, a number, a number and a
\* newline, and text that is no number.
NumberFiles ==
    {None, Some(<<>>), Some(<<"4", "2">>), Some(<<"7", "\n">>), Some(<<"x">>),
     Some(<<"4", "x">>), Some(<<"\f", "4", "2", "U+00A0">>), Some(<<"1", "U+0663">>),
     Some(<<"1", "U+00B2">>), Directory, Undecodable(<<"4", "2">>)}

\* Lines of metrics.json.
MetricLine == <<MetricKey, ",">>
ValueLine == <<ValueKey, ":", " ", "1", "2", "8">>
ValueNoDigits == <<ValueKey, ":", " ", "n", "u", "l", "l">>
ValueOtherScript == <<ValueKey, ":", " ", "1", "U+0663">>
ValueSuperscript == <<ValueKey, ":", " ", "1", "2", "U+00B2">>
OtherLine == <<"{", "3">>
MetricsFiles ==
    {None, Some(<<>>), Some(<<OtherLine>>), Some(<<MetricLine>>),
     Some(<<MetricLine, ValueLine>>), Some(<<OtherLine, MetricLine, ValueLine>>),
     Some(<<MetricLine, OtherLine, ValueLine>>), Some(<<MetricLine, ValueNoDigits>>),
     Some(<<OtherLine, ValueLine>>), Some(<<ValueLine, MetricLine>>),
     Some(<<MetricLine, ValueOtherScript>>), Some(<<MetricLine, ValueSuperscript>>),
     Directory, Undecodable(<<MetricLine, ValueLine>>), Undecodable(<<OtherLine>>)}

Queries ==
    [kind : {"proof_state"}, uuid : Ids, latency_file : NumberFiles,
     instret_file : NumberFiles, metrics_file : MetricsFiles]
    \cup
    [kind : {"logs"}, uuid : Ids, n : 0..MaxN, stdout_file : LogFiles,
     stderr_file : LogFiles]

\* The files and line counts of the read requests of Spec.
SampleNumberFiles == {None, Some(<<"4", "2">>), Some(<<>>)}
SampleMetricsFiles == {None, Some(<<MetricLine, ValueLine>>)}
SampleLogFiles == {None, Some(<<1, 2>>)}
SampleN == {1, 200}

(***************************************************************************)
(* Specifications.                                                         *)
(***************************************************************************)
Init == SInit /\ PInit /\ EInit

Next ==
    \/ \E uri \in {None, Some("s3://keys/pk")} :
          ServerStartup(uri, uri, TRUE, TRUE, TRUE)
    \/ \E r \in Reqs, u \in Ids : StartProofArrive(r, u)
    \/ \E r \in Reqs : StartProofCheck(r)
    \/ \E r \in Reqs, mkdir \in MkdirOutcomes, spawn \in SpawnOutcomes :
          StartProofRun(r, mkdir, spawn)
    \/ \E r \in Reqs : StartProofStore(r)
    \/ Health
    \/ \E u \in Ids, lat \in SampleNumberFiles, ins \in {None, Some(<<"7", "\n">>)},
          met \in SampleMetricsFiles : GetProofState(u, lat, ins, met)
    \/ \E u \in Ids, n \in SampleN, out \in SampleLogFiles, err \in SampleLogFiles :
          Logs(u, n, out, err)
    \/ \E p \in 1..MaxSpawns, c \in ExitCodes : ProcExit(p, c)
    \/ ScriptChange

Spec == Init /\ [][Next]_vars

PollerNext ==
    \/ \E complete \in BOOLEAN : LoadConfig(complete)
    \/ \E raised \in BOOLEAN, data \in ClusterLists : GetClusters(raised, data)
    \/ \E raised \in BOOLEAN, head \in Heads : GetLatestBlock(raised, head)
    \/ Check
    \/ IdleWait
    \/ Except
    \/ \E raised \in BOOLEAN, code \in ApiStatusCodes : SubmitQueued(raised, code)
    \/ \E raised \in BOOLEAN, status \in ExitCodes : MakeInput(raised, status)
    \/ RetrySleep
    \/ \E raised \in BOOLEAN, code \in ApiStatusCodes : SubmitProving(raised, code)
    \/ \E raised \in BOOLEAN, status \in ExitCodes : RunProve(raised, status)
    \/ \E readable \in BOOLEAN : ReadArtifacts(readable)
    \/ \E raised \in BOOLEAN, code \in ApiStatusCodes : SubmitProof(raised, code)

PollerInit ==
    /\ PInit
    /\ SInit
    /\ EInit
    /\ scriptExists = TRUE

PollerSpec == PollerInit /\ [][PollerNext]_vars

\* StartupSpec: the two processes from their start, the poller with its loop
\* and the service with its startup handler and its health endpoint.
StartupNext ==
    \/ PollerNext
    \/ \E app_pk_uri \in KeyUris, agg_pk_uri \in KeyUris,
          app_pk_exists \in BOOLEAN, agg_pk_exists \in BOOLEAN, copy_ok \in BOOLEAN :
          ServerStartup(app_pk_uri, agg_pk_uri, app_pk_exists, agg_pk_exists, copy_ok)
    \/ Health

StartupSpec == PollerInit /\ [][StartupNext]_vars

\* EncodeSpec: two proof files are drawn at the start and encoded.
EncodeInit ==
    /\ PInit
    /\ SInit
    /\ scriptExists = TRUE
    /\ proof_files \in ProofFiles \X ProofFiles
    /\ encoded = None

EncodeNext == EncodeProofs

EncodeSpec == EncodeInit /\ [][EncodeNext]_vars

\* QuerySpec: the read requests on a registry that holds nothing, or one job
\* whose process runs; the request and the files it finds are drawn at the
\* start, and the process may exit before or after the request.
QueryInit ==
    /\ PInit
    /\ EInit
    /\ \E u \in Ids, registered \in BOOLEAN :
          /\ procs = IF registered THEN Popen(<<>>, u, "spawned") ELSE <<>>
          /\ JOBS = IF registered
                    THEN StoreJob([x \in {} |-> None], u, Job(1, u, "prove-stark"))
                    ELSE [x \in {} |-> None]
    /\ job_dirs = DOMAIN JOBS
    /\ reqs = [r \in Reqs |-> IdleReq]
    /\ running = None
    /\ scriptExists = TRUE
    /\ resp = None
    /\ query \in Queries
    /\ server = [state |-> "serving", failure |-> "none"]

QueryNext ==
    \/ /\ query.kind = "proof_state"
       /\ GetProofState(query.uuid, query.latency_file, query.instret_file,
                        query.metrics_file)
    \/ /\ query.kind = "logs"
       /\ Logs(query.uuid, query.n, query.stdout_file, query.stderr_file)
    \/ \E c \in ExitCodes : ProcExit(1, c)

QuerySpec == QueryInit /\ [][QueryNext]_vars

(***************************************************************************)
(* Properties of the job control service.                                  *)
(***************************************************************************)
IsResp(handler) == resp # None /\ resp[1].handler = handler

\* Request r leaves position pos in this step.
Leaves(r, pos) == reqs[r].pc = pos /\ reqs'[r].pc # pos

\* Identifier u is registered and its registered process has not exited.
RegisteredLive(u) == u \in DOMAIN JOBS /\ ~procs[JOBS[u].popen].exited
\* Identifier u is registered and its registered process has exited.
RegisteredExited(u) == u \in DOMAIN JOBS /\ procs[JOBS[u].popen].exited

\* The state and the step that C1 is about.
C1_OneLive == \A u \in Ids : Cardinality(Live(procs, u)) <= 1
C1_StartOnLive ==
    \A r \in Reqs :
        /\ (Leaves(r, "check") /\ RegisteredLive(reqs[r].uuid)) =>
              /\ procs' = procs
              /\ JOBS' = JOBS
              /\ reqs'[r].pc = "idle"
              /\ resp' # None
              /\ resp'[1].handler = "start_proof"
              /\ resp'[1].status_code = 200
              /\ resp'[1].content.message = "job already running"
              /\ resp'[1].content.pid = JOBS[reqs[r].uuid].pid
        /\ Leaves(r, "store") =>
              /\ resp'[1].status_code = 202
              /\ resp'[1].content.pid = JOBS'[reqs[r].uuid].pid
\* C1: at most one process that has not exited exists per job identifier, and
\* a start_proof that finds the registered process of its identifier still
\* running spawns nothing, leaves the registry as it is and answers 200 "job
\* already running" with the registered pid, which is the pid the 202 answer of
\* the start that registered it carried.
C1_AtMostOneLiveProcess == []C1_OneLive /\ [][C1_StartOnLive]_vars
C1_Witness ==
    /\ IsResp("start_proof")
    /\ resp[1].status_code = 200
    /\ Len(procs) = 1

\* C2: the lookup, the spawn and the registry insert of one start_proof are
\* not interleaved with those of another: at most one request is between its
\* lookup and its insert, the event loop is running it, and every process
\* that has not exited is the registered one of its identifier or the one
\* that request is about to register.
C2_AtomicStart ==
    /\ \A r \in Reqs :
          reqs[r].pc \in {"run_proof", "store"} => running = Some(r)
    /\ \A r1, r2 \in Reqs :
          (reqs[r1].pc \in {"run_proof", "store"}
             /\ reqs[r2].pc \in {"run_proof", "store"}) => r1 = r2
    /\ \A p \in DOMAIN procs :
          ~procs[p].exited =>
             \/ /\ procs[p].uuid \in DOMAIN JOBS
                /\ JOBS[procs[p].uuid].pid = p
             \/ \E r \in Reqs : reqs[r].pc = "store" /\ reqs[r].proc = p
C2_Witness ==
    \E r1, r2 \in Reqs :
        /\ r1 # r2
        /\ reqs[r1].uuid = reqs[r2].uuid
        /\ reqs[r1].uuid \notin DOMAIN JOBS
        /\ reqs[r1].pc = "store"
        /\ reqs[r2].pc = "check"

\* C3: a state answered by proof_state for a registered identifier carries
\* InProgress while the registered process has not exited, Completed when it
\* has exited with code 0 and Failed when it has exited with another code;
\* the request is never answered not-found.
C3_StatusFollowsExit ==
    (IsResp("proof_state") /\ resp[1].uuid \in DOMAIN JOBS) =>
        LET p == procs[JOBS[resp[1].uuid].popen] IN
        /\ resp[1].status_code \in {200, 500}
        /\ resp[1].status_code = 200 =>
              /\ ~p.exited => resp[1].content.status = "InProgress"
              /\ (p.exited /\ p.returncode = 0) => resp[1].content.status = "Completed"
              /\ (p.exited /\ p.returncode # 0) => resp[1].content.status = "Failed"
C3_Witness ==
    /\ IsResp("proof_state")
    /\ resp[1].status_code = 200
    /\ resp[1].content.status = "Failed"
    /\ procs[JOBS[resp[1].uuid].popen].returncode < 0

\* The step of run_proof without the wrapper script.
C4_MissingScriptStep ==
    \A r \in Reqs :
        (Leaves(r, "run_proof") /\ ~scriptExists) =>
            /\ procs' = procs
            /\ JOBS' = JOBS
            /\ reqs'[r].pc = "idle"
            /\ resp' # None
            /\ resp'[1].handler = "start_proof"
            /\ resp'[1].status_code = 500
\* C4: a start_proof that calls run_proof while the wrapper script is missing
\* answers 500, spawns no process and leaves the registry as it is.
C4_MissingScript == [][C4_MissingScriptStep]_vars
C4_Witness ==
    /\ IsResp("start_proof")
    /\ resp[1].status_code = 500
    /\ "detail" \in DOMAIN resp[1].content
    /\ resp[1].content.detail = "Wrapper script not found"
    /\ resp[1].uuid \in DOMAIN JOBS
    /\ ~scriptExists

\* C5: proof_state and logs answer 404 for an identifier without a registry
\* entry and only for such an identifier; the answer carries no state and no
\* log lines, and the identifier has no entry afterwards.
C5_UnknownIsNotFound ==
    (IsResp("proof_state") \/ IsResp("logs")) =>
        /\ resp[1].uuid \notin DOMAIN JOBS <=> resp[1].status_code = 404
        /\ resp[1].status_code = 404 => resp[1].content = [error |-> "job not found"]
C5_Witness ==
    /\ IsResp("logs")
    /\ resp[1].status_code = 404
    /\ DOMAIN JOBS # {}

\* The last n lines of a file's lines, in the order of the file.
LastLines(data, n) ==
    IF n >= Len(data) THEN data ELSE SubSeq(data, Len(data) - n + 1, Len(data))

\* What C6 asks of the tail t that logs returns for the file f and the count n.
TailAsClaimed(f, n, t) ==
    IF f = None THEN t = <<>>
    ELSE /\ Len(t) <= n
         /\ t = LastLines(f[1], n)

\* C6: for every line count n >= 0 and every log file of a registered job,
\* logs returns at most n lines, the last lines of the file in file order, and
\* no line when the file does not exist.
C6_TailAtMostN ==
    (IsResp("logs") /\ resp[1].status_code = 200 /\ query.kind = "logs") =>
        /\ TailAsClaimed(query.stdout_file, query.n, resp[1].content.stdout)
        /\ TailAsClaimed(query.stderr_file, query.n, resp[1].content.stderr)

\* What one step may do to the registry.
C7_RegistryFrameStep ==
    /\ \A u \in DOMAIN JOBS : u \in DOMAIN JOBS'
    /\ JOBS' # JOBS =>
          \E r \in Reqs :
              /\ Leaves(r, "store")
              /\ resp'[1].handler = "start_proof"
              /\ resp'[1].status_code = 202
              /\ DOMAIN JOBS' = DOMAIN JOBS \cup {reqs[r].uuid}
              /\ \A x \in DOMAIN JOBS \ {reqs[r].uuid} : JOBS'[x] = JOBS[x]
\* C7: a step never removes a registry entry, and the only step that changes
\* the registry is the store of a start_proof, which is answered 202 and
\* changes the entry of the requested identifier alone; health, proof_state
\* and logs requests, and start requests answered 200 or 500, change nothing.
C7_RegistryFrame == [][C7_RegistryFrameStep]_vars
C7_Witness ==
    /\ Cardinality(DOMAIN JOBS) = 2
    /\ IsResp("start_proof")
    /\ resp[1].status_code = 202

\* The steps of a start_proof that finds an exited job.
C8_RestartStep ==
    \A r \in Reqs :
        LET u == reqs[r].uuid IN
        /\ (Leaves(r, "check") /\ RegisteredExited(u)) =>
              /\ reqs'[r].pc = "run_proof"
              /\ resp' = None
              /\ procs' = procs
              /\ JOBS' = JOBS
        /\ (Leaves(r, "run_proof") /\ reqs'[r].pc = "idle") =>
              /\ procs' = procs
              /\ JOBS' = JOBS
              /\ resp'[1].status_code = 500
        /\ (Leaves(r, "run_proof") /\ reqs'[r].pc # "idle") =>
              /\ scriptExists
              /\ u \in job_dirs'
              /\ Len(procs') = Len(procs) + 1
              /\ SubSeq(procs', 1, Len(procs)) = procs
              /\ procs'[Len(procs')].uuid = u
              /\ ~procs'[Len(procs')].exited
              /\ reqs'[r].pc = "store"
              /\ reqs'[r].proc = Len(procs')
        /\ Leaves(r, "store") =>
              /\ reqs[r].proc = Len(procs)
              /\ JOBS'[u].pid = reqs[r].proc
              /\ JOBS'[u].popen = reqs[r].proc
              /\ u \in DOMAIN JOBS => JOBS[u].pid # JOBS'[u].pid
              /\ resp'[1].status_code = 202
              /\ resp'[1].content.message = "job started"
              /\ resp'[1].content.pid = reqs[r].proc
              /\ LET state == get_proof_state(JOBS', procs', u, None, None, None)[1]
                 IN  state.content.status = "InProgress" <=> ~procs'[reqs[r].proc].exited
\* C8: a start_proof that finds the registered process of its identifier
\* exited is not answered "job already running": it goes on to run_proof,
\* which (the job directory made, the wrapper script there and started) spawns
\* exactly one process, and it stores that process as the entry of the
\* identifier in place of the exited one and answers 202 "job started";
\* proof_state for the identifier then reports InProgress unless the new
\* process has exited.  A start that does not spawn answers 500 and
\* leaves the processes and the registry as they are.
C8_Restart ==
    /\ [][C8_RestartStep]_vars
    /\ [](\A r \in Reqs :
            (reqs[r].pc = "run_proof" /\ running = Some(r) /\ scriptExists) =>
               ENABLED (StartProofRun(r, "made", "spawned")
                          /\ reqs'[r].pc = "store"))
C8_Witness ==
    /\ IsResp("start_proof")
    /\ resp[1].status_code = 202
    /\ Len(procs) = 2
    /\ procs[1].uuid = resp[1].uuid
    /\ procs[1].exited
    /\ procs[2].uuid = resp[1].uuid
    /\ ~procs[2].exited
    /\ JOBS[resp[1].uuid].pid = 2

\* A metric file that is there and does not hold an integer, or cannot be read.
Malformed(f) == f # None /\ ReadInt(f) = None

\* No line of the metrics file names the metric.
NoNamedMetric(f) ==
    \/ f = None
    \/ /\ ReadIgnore(f) # None
       /\ \A i \in 1..Len(ReadIgnore(f)[1]) : ~InLine(MetricKey, ReadIgnore(f)[1][i])

\* The instruction count is read from the metrics file and open() or int()
\* raises.
MetricRaises(instret_file, metrics_file) ==
    /\ instret_file = None
    /\ metrics_file # None
    /\ ReadMetrics(metrics_file) = None

\* C9: for a registered job, no answer of proof_state is an error unless a
\* metric file that is there cannot be read or does not hold an integer;
\* without a latency file the latency is null, and without an
\* instruction-count file and without the named metric in a metrics file the
\* instruction count is 0; the status is reported in both cases.
C9_AbsentFilesDefault ==
    (IsResp("proof_state") /\ query.kind = "proof_state"
       /\ resp[1].uuid \in DOMAIN JOBS) =>
        LET ok == resp[1].status_code = 200
            state == resp[1].content
        IN
        /\ ~ok => \/ Malformed(query.latency_file)
                  \/ Malformed(query.instret_file)
                  \/ MetricRaises(query.instret_file, query.metrics_file)
        /\ (query.latency_file = None /\ ~Malformed(query.instret_file)
              /\ ~MetricRaises(query.instret_file, query.metrics_file)) =>
              /\ ok
              /\ state.e2e_latency_ms = None
              /\ state.status \in {"InProgress", "Completed", "Failed"}
        /\ (query.instret_file = None /\ NoNamedMetric(query.metrics_file)
              /\ ~Malformed(query.latency_file)) =>
              /\ ok
              /\ state.num_instructions = 0
              /\ state.status \in {"InProgress", "Completed", "Failed"}
C9_Witness ==
    /\ IsResp("proof_state")
    /\ query.kind = "proof_state"
    /\ resp[1].uuid \in DOMAIN JOBS
    /\ query.latency_file = None
    /\ query.instret_file = None
    /\ query.metrics_file # None
    /\ resp[1].status_code = 200
    /\ resp[1].content.num_instructions = 0
    /\ resp[1].content.e2e_latency_ms = None

(***************************************************************************)
(* Properties of the block interval poller.                                *)
(***************************************************************************)
\* floor(head / 100) * 100 for a head that is not negative.
Boundary(head) == head - (head % 100)

\* The decision of an iteration as C10 states it.
C10_OriginalStep ==
    pc = "check" =>
        LET b == Boundary(latest_block) IN
        /\ pc' = "queued" <=> b # last_checked
        /\ pc' = "queued" => block' = b
        /\ b = last_checked => pc' = "idle_wait"
\* C10 as stated: the iteration starts a proving cycle exactly when the
\* boundary of the head differs from the checkpoint, with the boundary as the
\* target, and takes the idle wait when the checkpoint equals the boundary.
C10_Original == [][C10_OriginalStep]_vars

\* The decision of an iteration as the code takes it.
C10_AmendedStep ==
    /\ pc = "check" =>
          LET b == Boundary(latest_block) IN
          /\ pc' = "queued" <=> (latest_block > last_checked /\ b # last_checked)
          /\ pc' = "queued" =>
                /\ block' = b
                /\ last_checked' = b
                /\ started' = Append(started, b)
          /\ (latest_block > last_checked /\ b = last_checked) =>
                /\ pc' = "idle_wait"
                /\ last_checked' = last_checked
                /\ started' = started
          /\ latest_block <= last_checked =>
                /\ pc' = "except"
                /\ last_checked' = last_checked
                /\ started' = started
    /\ pc = "idle_wait" =>
          /\ events' = Append(events, Ev("sleep", (100 - (latest_block % 100)) * 12))
          /\ pc' = "poll"
          /\ started' = started
    /\ pc = "except" =>
          /\ events' = Append(events, Ev("sleep", 10))
          /\ pc' = "poll"
\* C10, amended: the iteration starts a proving cycle exactly when the head is
\* past the checkpoint and the boundary of the head differs from the
\* checkpoint, with the boundary as the target and as the new checkpoint; with
\* the checkpoint equal to the boundary it starts no cycle and takes the idle
\* wait of (100 - head % 100) * 12 seconds when the head is past the
\* checkpoint; a head that is not past the checkpoint starts no cycle and
\* raises, which the loop answers with its 10 second sleep.
C10_CycleStartsPastCheckpoint == [][C10_AmendedStep]_vars
C10_Witness ==
    /\ pc = "poll"
    /\ started # <<>>
    /\ last_checked = started[Len(started)]
    /\ Boundary(latest_block) = last_checked
    /\ latest_block > last_checked
    /\ events # <<>>
    /\ events[Len(events)] = Ev("sleep", (100 - (latest_block % 100)) * 12)

\* The steps of a proving cycle, from the first report to the last.
InCycle ==
    pc \in {"queued", "make_input", "backoff", "proving", "run_prove",
            "read_artifacts", "proved"}

\* The boundaries for which a cycle has been started in this process run.
Fired == {started[i] : i \in 1..Len(started)}

\* The checkpoint at the start and at the abort of a cycle, and the decision
\* of a later iteration whose head lies in the interval of a started cycle.
C11_Step ==
    /\ (pc = "check" /\ pc' = "queued") =>
          /\ last_checked' = Boundary(latest_block)
          /\ block' = last_checked'
          /\ events' = Append(events, Ev("prove", last_checked'))
    /\ (InCycle /\ pc' = "except") =>
          /\ last_checked' = block
          /\ block \in Fired
          /\ block \notin completed'
    /\ (pc = "check" /\ Boundary(latest_block) \in Fired) =>
          /\ pc' \in {"idle_wait", "except"}
          /\ started' = started
          /\ last_checked' = last_checked
\* C11: when a proving cycle fires, the checkpoint is the new boundary before
\* the first step of the cycle runs and through every step of the cycle; a
\* cycle that aborts with an exception leaves it there, and a later iteration
\* whose head is still in the interval of a boundary already started does not
\* start a cycle for it again.
C11_CheckpointBeforeCycle ==
    /\ [](InCycle => (last_checked = block /\ block \in Fired))
    /\ [][C11_Step]_vars
C11_Witness ==
    /\ pc = "idle_wait"
    /\ last_checked \in Fired
    /\ last_checked \notin completed
    /\ Boundary(latest_block) = last_checked

\* C12 as stated: the checkpoint is the initial value or a boundary whose
\* proving cycle ran to completion without an exception.
C12_Original ==
    last_checked = InitialCheckpoint \/ last_checked \in completed

\* C12, amended: the checkpoint is the initial value while no cycle has been
\* started, and afterwards the boundary of the cycle started last, whether
\* that cycle is still running, has completed or was aborted.
C12_CheckpointIsLastStarted ==
    IF started = <<>>
    THEN last_checked = InitialCheckpoint
    ELSE last_checked = started[Len(started)]
C12_Witness ==
    /\ pc = "poll"
    /\ started # <<>>
    /\ last_checked = started[Len(started)]
    /\ last_checked \notin completed
    /\ last_checked # InitialCheckpoint
    /\ events # <<>>
    /\ events[Len(events)].ev = "sleep"
    /\ events[Len(events)].arg = ErrorSleep

\* The last thing the current iteration did.
LastEvent == events[Len(events)]

\* The exceptions an iteration of the loop can raise.
LoopRaises ==
    {"get_latest_block", "last_checked >= latest_block", "queued", "make_input",
     "proving", "run_prove", "read_artifacts", "proved"}

\* What follows a raise inside the loop.
C13_Step ==
    /\ (pc \notin {"import", "clusters"} /\ events' # events /\ events' # <<>>
            /\ events'[Len(events')].ev = "raise") =>
          /\ events'[Len(events')].arg \in LoopRaises
          /\ pc' = "except"
    /\ pc = "except" =>
          /\ events' = Append(events, Ev("sleep", 10))
          /\ pc' = "poll"
          /\ last_checked' = last_checked
    /\ pc \notin {"import", "clusters"} => pc' # "terminated"
\* C13: an exception raised by an iteration of the loop (the head request,
\* a report to the attestation API, a head not greater than the checkpoint, a
\* script that cannot be started, a result file that cannot be read) never
\* ends the poller: it is caught, the
\* poller sleeps 10 seconds, and the loop goes on with its next iteration,
\* waiting for a head.
C13_LoopCatchesAll ==
    /\ [](pc = "except" => (events # <<>> /\ LastEvent.ev = "raise"))
    /\ [](pc = "terminated" => (started = <<>> /\ latest_block = 0))
    /\ [][C13_Step]_vars
C13_Witness ==
    /\ pc = "poll"
    /\ Len(events) >= 2
    /\ events[Len(events) - 1].ev = "raise"
    /\ events[Len(events) - 1].arg = "read_artifacts"
    /\ LastEvent.ev = "sleep"
    /\ LastEvent.arg = ErrorSleep

\* C14 as stated: only a missing required configuration value ends the
\* poller or the service.
C14_Original ==
    /\ pc = "terminated" => LastEvent.arg = "read_env_var_or_error"
    /\ server.state = "terminated" => server.failure = "ValueError"

\* C14, amended: the poller ends only before its loop, on a missing required
\* configuration value, on a cluster lookup that raises (request error, error
\* status, answer that is not a list) or on a cluster list without
\* MACHINE_ID; the service ends only on a missing key URI at startup, and a
\* failed proving-key download leaves it serving.
C14_OnlyStartupEnds ==
    /\ pc = "terminated" =>
          /\ Len(events) = 1
          /\ LastEvent.ev = "raise"
          /\ LastEvent.arg \in {"read_env_var_or_error", "get_clusters",
                                "MACHINE_ID not in machine_ids"}
          /\ started = <<>>
          /\ latest_block = 0
    /\ server.state = "terminated" => server.failure = "ValueError"
    /\ server.failure = "download" => server.state = "serving"
C14_Witness ==
    /\ pc = "terminated"
    /\ LastEvent.arg = "get_clusters"
    /\ server.state = "serving"
    /\ server.failure = "download"
    /\ resp # None

\* The JSON object a text holds: its keys and the value of each.
LogicalObject(text) ==
    LET d == json_load(text) IN
    [k \in {d[i][1] : i \in 1..Len(d)} |->
        (CHOOSE m \in {d[i] : i \in 1..Len(d)} : m[1] = k)[2]]

\* C15: two proof files that hold the same JSON object, whatever the order of
\* the keys in each, are encoded to the same base64 text.
C15_SameObjectSameEncoding ==
    (encoded # None /\ LogicalObject(proof_files[1]) = LogicalObject(proof_files[2]))
        => encoded[1][1] = encoded[1][2]

\* Where the current iteration started a cycle, and what the cycle has done
\* since.
ProveAt == {i \in 1..Len(events) : events[i].ev = "prove"}
CycleEvents ==
    IF ProveAt = {} THEN <<>>
    ELSE SubSeq(events, (CHOOSE i \in ProveAt : TRUE) + 1, Len(events))

\* The place of an event in a proving cycle: the six steps, then the
\* exception that aborts the cycle and the sleep that answers it.
Phase(e) ==
    CASE e.ev = "queued" -> 1
      [] e.ev = "make_input" -> 2
      [] e.ev = "sleep" -> IF e.arg = 5 THEN 2 ELSE 8
      [] e.ev = "proving" -> 3
      [] e.ev = "run_prove" -> 4
      [] e.ev = "read_artifacts" -> 5
      [] e.ev = "proved" -> 6
      [] e.ev = "raise" -> 7

\* C16: within one proving cycle for block B the steps occur in the order
\* report queued, input preparation, report proving, produce-proof run,
\* result artifacts read, report proved; each occurs at most once except the
\* input preparation, whose zero exit is its last attempt; a step occurs only
\* when every earlier step has occurred and the input preparation has exited
\* zero; an iteration starts at most one cycle, and the cycle in progress is
\* the one for the checkpoint.
C16_CycleOrder ==
    LET c == CycleEvents
        At(p) == {i \in 1..Len(c) : Phase(c[i]) = p}
    IN  /\ Cardinality(ProveAt) <= 1
        /\ InCycle =>
              /\ ProveAt # {}
              /\ \A i \in ProveAt : events[i].arg = block
              /\ block = started[Len(started)]
        /\ \A i \in 1..Len(c), j \in 1..Len(c) : i < j => Phase(c[i]) <= Phase(c[j])
        /\ \A p \in {1, 3, 4, 5, 6} : Cardinality(At(p)) <= 1
        /\ \A i \in At(2) :
              (c[i].ev = "make_input" /\ c[i].arg = 0) => \A j \in At(2) : j <= i
        /\ \A p \in 3..6 :
              At(p) # {} =>
                 /\ \A q \in 1..(p - 1) : At(q) # {}
                 /\ \E i \in At(2) : c[i].ev = "make_input" /\ c[i].arg = 0
C16_Witness ==
    /\ pc = "poll"
    /\ block \in completed
    /\ Len(CycleEvents) >= 8
    /\ CycleEvents[1].ev = "queued"
    /\ CycleEvents[2].ev = "make_input"
    /\ CycleEvents[2].arg # 0
    /\ LastEvent.ev = "proved"

\* One attempt of the input preparation.
C17_Step ==
    /\ pc = "make_input" =>
          /\ pc' \in {"backoff", "proving", "except"}
          /\ pc' = "proving" => events' = Append(events, Ev("make_input", 0))
          /\ pc' = "except" => events' = Append(events, Ev("raise", "make_input"))
          /\ pc' = "backoff" =>
                /\ Len(events') = Len(events) + 1
                /\ SubSeq(events', 1, Len(events)) = events
                /\ events'[Len(events')].ev = "make_input"
                /\ events'[Len(events')].arg # 0
          /\ last_checked' = last_checked
          /\ completed' = completed
    /\ pc = "backoff" =>
          /\ pc' = "make_input"
          /\ events' = Append(events, Ev("sleep", 5))
          /\ last_checked' = last_checked
          /\ completed' = completed
\* C17: the input preparation never gives up on a non-zero exit.  A non-zero
\* exit is followed by a 5 second sleep and another attempt, and an attempt
\* that exits non-zero is possible after every number of failed attempts the
\* model follows; no exit code takes the cycle out of the phase but zero (an
\* attempt that cannot be started has no exit code: it raises, and the loop's
\* handler ends the cycle), so "proving started" is reported only directly
\* after a zero exit, and while the attempts fail neither "proving started"
\* nor a proof has been reported for the block.
C17_InputNeverGivesUp ==
    /\ [][C17_Step]_vars
    /\ []((pc = "make_input" /\ attempts < MaxAttempts) =>
            \A status \in ExitCodes \ {0} :
               ENABLED (MakeInput(FALSE, status) /\ pc' = "backoff"))
    /\ [](pc = "backoff" =>
            /\ LastEvent.ev = "make_input"
            /\ LastEvent.arg # 0
            /\ ENABLED (RetrySleep /\ pc' = "make_input"))
    /\ [](pc \in {"make_input", "backoff"} =>
            /\ \A i \in 1..Len(CycleEvents) :
                  /\ CycleEvents[i].ev \notin {"proving", "run_prove", "proved"}
                  /\ CycleEvents[i].ev = "make_input" => CycleEvents[i].arg # 0
            /\ block \notin completed)
    /\ [](\A i \in 1..Len(events) :
            events[i].ev \in {"proving", "run_prove"} =>
               \E j \in 1..(i - 1) : events[j].ev = "make_input" /\ events[j].arg = 0)
C17_Witness ==
    /\ pc = "make_input"
    /\ attempts = MaxAttempts
    /\ Len(CycleEvents) = 1 + 2 * MaxAttempts
    /\ LastEvent.ev = "sleep"
    /\ LastEvent.arg = Backoff

\* The produce-proof run and the steps after it.
C18_Step ==
    /\ pc = "run_prove" =>
          /\ Len(events') = Len(events) + 1
          /\ IF events'[Len(events')].ev = "run_prove"
             THEN /\ pc' = "read_artifacts"
                  /\ events'[Len(events')].arg \in ExitCodes
             ELSE /\ pc' = "except"
                  /\ events' = Append(events, Ev("raise", "run_prove"))
          /\ UNCHANGED <<last_checked, block, completed, started>>
    /\ (pc = "read_artifacts" /\ pc' # "except") =>
          /\ pc' = "proved"
          /\ events' = Append(events, Ev("read_artifacts", block))
    /\ (pc = "proved" /\ pc' # "except") =>
          /\ pc' = "poll"
          /\ events'[Len(events')].ev = "proved"
          /\ completed' = completed \cup {block}
\* C18: a non-zero exit of the produce-proof run raises nothing and does not
\* abort the cycle: whatever the exit code of a run that was started, the
\* next step reads the result artifacts of the block, and when they can be
\* read (and the report is answered) the final proof is reported for the
\* block and the cycle completes, as after a zero exit.
C18_ProveExitIgnored ==
    /\ [][C18_Step]_vars
    /\ [](pc = "run_prove" =>
            \A status \in ExitCodes :
               ENABLED (RunProve(FALSE, status)
                        /\ pc' = "read_artifacts"
                        /\ events' = Append(events, Ev("run_prove", status))))
    /\ [](pc = "read_artifacts" =>
            /\ LastEvent.ev = "run_prove"
            /\ ENABLED (ReadArtifacts(TRUE) /\ pc' = "proved"))
    /\ [](pc = "proved" =>
            ENABLED (SubmitProof(FALSE, 200) /\ pc' = "poll" /\ block \in completed'))
C18_Witness ==
    /\ pc = "poll"
    /\ block \in completed
    /\ \E i \in 1..Len(events) : events[i].ev = "run_prove" /\ events[i].arg # 0
    /\ LastEvent.ev = "proved"
    /\ LastEvent.arg = "submitted"

\* The three reports of a cycle and the step that follows each.
Reports == {"queued", "proving", "proved"}
AfterReport(name) ==
    CASE name = "queued" -> "make_input"
      [] name = "proving" -> "run_prove"
      [] name = "proved" -> "poll"

\* A report that is answered, with a success status or another.
C19_Step ==
    \A name \in Reports :
       (pc = name /\ events'[Len(events')].ev = name) =>
          /\ events'[Len(events')].arg \in {"submitted", "failed"}
          /\ SubSeq(events', 1, Len(events)) = events
          /\ Len(events') = Len(events) + 1
          /\ pc' = AfterReport(name)
          /\ name = "proved" => completed' = completed \cup {block}
          /\ UNCHANGED <<last_checked, block, started>>
\* C19: a report (queued, proving, proved) answered with a status code other
\* than success is only logged: it is sent once, it raises nothing, and the
\* cycle goes on with its next step, as after a success status.
C19_FailedReportOnlyLogged ==
    /\ [][C19_Step]_vars
    /\ [](\A name \in Reports :
            /\ Cardinality({i \in 1..Len(CycleEvents) : CycleEvents[i].ev = name}) <= 1
            /\ pc = name =>
                  ENABLED (PollerNext
                           /\ events' = Append(events, Ev(name, "failed"))
                           /\ pc' = AfterReport(name)))
    /\ [](\A i \in 1..(Len(events) - 1) :
            (events[i].ev \in Reports /\ events[i].arg = "failed") =>
               /\ events[i + 1].ev # events[i].ev
               /\ events[i + 1].ev = "raise" => events[i + 1].arg # events[i].ev)
C19_Witness ==
    /\ pc = "poll"
    /\ block \in completed
    /\ \A name \in Reports :
          \E i \in 1..Len(events) : events[i].ev = name /\ events[i].arg = "failed"

\* The checkpoint from one state to the next, and the iteration whose head
\* is not past the checkpoint.
C20_Step ==
    /\ last_checked' >= last_checked
    /\ last_checked' # last_checked =>
          /\ pc = "check"
          /\ pc' = "queued"
          /\ started' = Append(started, last_checked')
    /\ (pc = "check" /\ latest_block <= last_checked) =>
          /\ pc' # "queued"
          /\ last_checked' = last_checked
          /\ started' = started
\* C20: whatever heads the RPC returns, heads that stand still or go
\* backwards included, the checkpoint is a multiple of 100 and never
\* decreases; the targets of the cycles started in one process run are
\* strictly increasing multiples of 100, so no boundary is the target of two
\* cycles; and a head not greater than the checkpoint starts no cycle and
\* leaves the checkpoint unchanged.
C20_CheckpointMonotone ==
    /\ [](last_checked % 100 = 0 /\ last_checked >= InitialCheckpoint)
    /\ [](\A i \in 1..Len(started) :
            /\ started[i] % 100 = 0
            /\ \A j \in 1..Len(started) : i < j => started[i] < started[j])
    /\ [][C20_Step]_vars
C20_Witness ==
    /\ pc = "except"
    /\ Len(started) >= 2
    /\ latest_block < last_checked
    /\ latest_block > started[1]
    /\ last_checked = started[Len(started)]

====
